---- MODULE Spec2Model ----
(***************************************************************************)
(* Penrose stairs: the step generator (PenroseStairs.steps), the marker    *)
(* path (AnimatedBall.pathPoints) and the per-frame sampler (AnimatedBall  *)
(* useFrame callback).                                                     *)
(*                                                                         *)
(* Numbers.  The program computes in floating point; the model computes    *)
(* the same expressions exactly in fixed point:                            *)
(*   - stepHeight, stepWidth, stepDepth are in hundredths (0.5 -> 50);     *)
(*   - MODEL_SCALE is in tenths (1.8 -> 18), so every scaled length is in  *)
(*     thousandths of a scene unit;                                        *)
(*   - progress is counted in ticks, TicksPerUnit ticks per waypoint;      *)
(*   - a sampled marker coordinate is in thousandths times TicksPerUnit    *)
(*     (the interpolation factor t is ticks / TicksPerUnit).               *)
(* Arrays are 0-based in the program and 1-based here: At(s, i) reads      *)
(* element i of the program's array.                                       *)
(***************************************************************************)
EXTENDS Integers, Sequences, FiniteSets, TLC

\* ---------------------------------------------------------------- bounds
MaxSteps == 2
MaxDelta == 2
MaxShape == 4
TicksPerUnit == 4

StepsPerSideSet == 0..MaxSteps
StepHeights == {0, 50}
StepWidths == {100, 200}
StepDepths == {200}
\* the default dimensions (0.5, 2, 2) and those that differ from them in one
Dimensions ==
  {d \in StepHeights \X StepWidths \X StepDepths :
     Cardinality({k \in 1..3 : d[k] # <<50, 200, 200>>[k]}) <= 1}
Speeds == {1, 2}
\* barWidth, triangleSize and size, in hundredths; zero and negative included
BarWidths == {100 * k : k \in (-1)..MaxShape}
TriangleSizes == {100 * k : k \in 0..MaxShape}
CubeSizes == {100 * k : k \in (-1)..MaxShape}
\* a frame time longer than any whole path the bounds allow
HugeDelta == TicksPerUnit * 4 * (MaxSteps + 1)
Deltas == (0..MaxDelta) \cup {HugeDelta}

\* ------------------------------------------------------------- constants
MODEL_SCALE == 18
TRIANGLE_SCALE == 25
CUBE_SCALE == 30

VARIABLES
  stepsPerSide, stepHeight, stepWidth, stepDepth, speed, showTrueGeometry,
  steps,          \* PenroseStairs: the memoized step array
  pathPoints,     \* AnimatedBall: the memoized waypoint array
  progressRef,    \* AnimatedBall: progressRef.current, in ticks
  ballMounted,    \* AnimatedBall: ballRef.current is not null
  ballPosition,   \* ballRef.current.position, <<x, y, z>>
  fault,          \* what the latest frame callback threw, or "none"
  last,           \* the latest operation and, for a frame, its inputs
  wrapped,        \* some frame so far has reset the progress
  barWidth, triangleSize,   \* PenroseTriangle props
  bars,           \* PenroseTriangle: the memoized bar array
  cubeSize        \* ImpossibleCube: the size prop

vars == <<stepsPerSide, stepHeight, stepWidth, stepDepth, speed,
          showTrueGeometry, steps, pathPoints, progressRef, ballMounted,
          ballPosition, fault, last, wrapped, barWidth, triangleSize, bars,
          cubeSize>>

At(s, i) == s[i + 1]

\* ------------------------------------------------- PenroseStairs.steps
TotalSteps(sps) == sps * 4

StepSide(i, sps) == i \div sps

StepInSide(i, sps) == i % sps

StepPlanarLeftSideOff(side, stepInSide, sps, unitLength) ==
  IF side = 0 THEN [x |-> stepInSide * unitLength, y |-> 0, rotationY |-> 0]
  ELSE IF side = 1 THEN
    [x |-> sps * unitLength, y |-> stepInSide * unitLength, rotationY |-> 1]
  ELSE IF side = 2 THEN
    [x |-> (sps - stepInSide - 1) * unitLength, y |-> sps * unitLength,
     rotationY |-> 2]
  ELSE
    [x |-> 0, y |-> (sps - stepInSide) * unitLength, rotationY |-> -1]

\* x, y before centering and the rotation in quarter turns (PI / 2)
StepPlanar(side, stepInSide, sps, unitLength) ==
  IF side = 0 THEN [x |-> stepInSide * unitLength, y |-> 0, rotationY |-> 0]
  ELSE IF side = 1 THEN
    [x |-> sps * unitLength, y |-> stepInSide * unitLength, rotationY |-> 1]
  ELSE IF side = 2 THEN
    [x |-> (sps - stepInSide) * unitLength, y |-> sps * unitLength,
     rotationY |-> 2]
  ELSE
    [x |-> 0, y |-> (sps - stepInSide) * unitLength, rotationY |-> -1]

StepZNoPin(i, totalSteps, stepRise, reveal) == i * stepRise

StepZAlwaysPin(i, totalSteps, stepRise, reveal) ==
  IF i < totalSteps - 1 THEN i * stepRise ELSE 0

StepZ(i, totalSteps, stepRise, reveal) ==
  IF reveal THEN i * stepRise
  ELSE IF i < totalSteps - 1 THEN i * stepRise ELSE 0

AdjustedRotationY(side, rotationY) ==
  IF side = 1 \/ side = 3 THEN rotationY + 1 ELSE rotationY

Colors == <<"#FF6B6B", "#4ECDC4", "#45B7D1", "#FFA07A">>

StepAt(i, sps, sh, sd, reveal) ==
  LET unitLength == sd * MODEL_SCALE
      stepRise == sh * MODEL_SCALE
      centerOffset == (sps * unitLength) \div 2
      side == StepSide(i, sps)
      pl == StepPlanar(side, StepInSide(i, sps), sps, unitLength)
  IN [position |-> <<pl.x - centerOffset, pl.y - centerOffset,
                     StepZ(i, TotalSteps(sps), stepRise, reveal)>>,
      rotation |-> <<0, AdjustedRotationY(side, pl.rotationY), 0>>,
      color |-> At(Colors, side),
      side |-> side,
      stepIndex |-> i]

GenerateStepsShort(sps, sh, sd, reveal) ==
  [n \in 1..(TotalSteps(sps) - 1) |-> StepAt(n - 1, sps, sh, sd, reveal)]

GenerateSteps(sps, sh, sd, reveal) ==
  [n \in 1..TotalSteps(sps) |-> StepAt(n - 1, sps, sh, sd, reveal)]

\* Step: the <group> is placed at position and turned by rotation (only
\* the Y angle is ever set, in quarter turns); the box sits at
\* [width / 2, depth / 2, height / 2] inside it
RotateY(v, quarterTurns) ==
  LET q == quarterTurns % 4
  IN IF q = 0 THEN v
     ELSE IF q = 1 THEN <<v[3], v[2], -v[1]>>
     ELSE IF q = 2 THEN <<-v[1], v[2], -v[3]>>
     ELSE <<-v[3], v[2], v[1]>>

StepBoxCentre(step, width, height, depth) ==
  LET off == RotateY(<<width \div 2, depth \div 2, height \div 2>>,
                     step.rotation[2])
  IN <<step.position[1] + off[1], step.position[2] + off[2],
       step.position[3] + off[3]>>

\* ---------------------------------------------- AnimatedBall.pathPoints
ScaledStepHeight(sh) == sh * MODEL_SCALE
ScaledStepWidth(sw) == sw * MODEL_SCALE
ScaledStepDepth(sd) == sd * MODEL_SCALE
OffsetX(sps, sw) == (sps * ScaledStepWidth(sw)) \div 2
OffsetY(sps, sd) == (sps * ScaledStepDepth(sd)) \div 2

PathPointAtFollowsSteps(i, sps, sh, sw, sd, reveal) ==
  LET w == ScaledStepWidth(sw)
      d == ScaledStepDepth(sd)
      h == ScaledStepHeight(sh)
      side == i \div sps
      stepInSide == i % sps
      x0 == IF side = 0 THEN stepInSide * w + w \div 2
            ELSE IF side = 1 THEN sps * w - w \div 2
            ELSE IF side = 2 THEN (sps - stepInSide) * w - w \div 2
            ELSE w \div 2
      y0 == IF side = 0 THEN d \div 2
            ELSE IF side = 1 THEN stepInSide * d + d \div 2
            ELSE IF side = 2 THEN sps * d + d \div 2
            ELSE (sps - stepInSide) * d - d \div 2
      y1 == y0 - OffsetY(sps, sd)
  IN [x |-> x0 - OffsetX(sps, sw),
      y |-> IF side = 3 THEN y1 - d ELSE y1,
      z |-> IF reveal THEN i * h + h ELSE i * h]

PathPointAt(i, sps, sh, sw, sd, reveal) ==
  LET w == ScaledStepWidth(sw)
      d == ScaledStepDepth(sd)
      h == ScaledStepHeight(sh)
      side == i \div sps
      stepInSide == i % sps
      x0 == IF side = 0 THEN stepInSide * w + w \div 2
            ELSE IF side = 1 THEN sps * w - w \div 2
            ELSE IF side = 2 THEN (sps - stepInSide) * w - w \div 2
            ELSE w \div 2
      y0 == IF side = 0 THEN d \div 2
            ELSE IF side = 1 THEN stepInSide * d + d \div 2
            ELSE IF side = 2 THEN sps * d + d \div 2
            ELSE (sps - stepInSide) * d - d \div 2
      y1 == y0 - OffsetY(sps, sd)
  IN [x |-> x0 - OffsetX(sps, sw),
      y |-> IF side = 3 THEN y1 - d ELSE y1,
      z |-> IF reveal THEN i * h + h ELSE i * h + h]

SyntheticPoint(sps, sh, sw, sd) ==
  LET w == ScaledStepWidth(sw)
      d == ScaledStepDepth(sd)
      h == ScaledStepHeight(sh)
  IN [x |-> 1 * w + w \div 2 - OffsetX(sps, sw),
      y |-> d \div 2 - OffsetY(sps, sd),
      z |-> 1 * h + h]

PathLoopCountAll(sps) == IF TotalSteps(sps) > 0 THEN TotalSteps(sps) ELSE 0

\* the number of iterations of "for (i = 0; i < totalSteps - 1; i++)"
PathLoopCount(sps) ==
  IF TotalSteps(sps) - 1 > 0 THEN TotalSteps(sps) - 1 ELSE 0

BuildPath(sps, sh, sw, sd, reveal) ==
  [n \in 1..PathLoopCount(sps) |-> PathPointAt(n - 1, sps, sh, sw, sd, reveal)]
    \o <<SyntheticPoint(sps, sh, sw, sd)>>

\* ------------------------------------------------- PenroseTriangle.bars
\* Lengths are in thousandths.  A bar position is <<x, y, z>> with x in
\* 1/116 of a thousandth (size / 4 = 29 / 116, size / 2.9 = 40 / 116), y in
\* 1/100000 (height = size * 0.866, times 0.6, 0.17 or 0.21) and z in 1/100
\* (thickness * 1.5, times 1 or 2.5).  Angles are kept as written.
ScaledBarWidth(bw) == bw * TRIANGLE_SCALE
ScaledTriangleSize(ts) == ts * TRIANGLE_SCALE

\* thickness * 1.5 in true-geometry mode, in tenths
DepthOffset(thickness, reveal) == IF reveal THEN thickness * 15 ELSE 0

BottomBar(size, thickness, reveal) ==
  [position |-> <<0, size * 866 * 60, 0>>,
   rotation |-> <<"0", "0", "0">>,
   dimensions |-> <<size, thickness, thickness>>,
   color |-> "#FF6B6B"]

RightBar(size, thickness, reveal) ==
  [position |-> <<29 * size, size * 866 * 17,
                  IF reveal THEN DepthOffset(thickness, reveal) * 10 ELSE 0>>,
   rotation |-> <<"0", "0", "PI/3">>,
   dimensions |-> <<size, thickness, thickness>>,
   color |-> "#4ECDC4"]

LeftBarSameDepth(size, thickness, reveal) ==
  [position |-> <<-(40 * size), size * 866 * 21,
                  IF reveal THEN DepthOffset(thickness, reveal) * 10 ELSE 0>>,
   rotation |-> <<"0", "0.55", "-PI/3.5">>,
   dimensions |-> <<size, thickness, thickness>>,
   color |-> "#45B7D1"]

LeftBar(size, thickness, reveal) ==
  [position |-> <<-(40 * size), size * 866 * 21,
                  IF reveal THEN DepthOffset(thickness, reveal) * 25 ELSE 0>>,
   rotation |-> <<"0", "0.55", "-PI/3.5">>,
   dimensions |-> <<size, thickness, thickness>>,
   color |-> "#45B7D1"]

\* the body of the useMemo: size = scaledTriangleSize, thickness =
\* scaledBarWidth
GenerateBars(scaledTriangleSize, scaledBarWidth, reveal) ==
  <<BottomBar(scaledTriangleSize, scaledBarWidth, reveal),
    RightBar(scaledTriangleSize, scaledBarWidth, reveal),
    LeftBar(scaledTriangleSize, scaledBarWidth, reveal)>>

\* ------------------------------------------------------- ImpossibleCube
\* A cube position is <<x, y, z>> with x and y in quarters of a thousandth
\* and z in 1/10000 (lineWidth = scaledSize * 0.12, times 0.01 or 1.6).  A
\* box dimension is [n, sqrt2]: n in 1/1000 of a thousandth, times SQRT2
\* when sqrt2 holds.  Angles are kept as written.
CubeScaledSize(size) == size * CUBE_SCALE

Plain(n) == [n |-> n, sqrt2 |-> FALSE]

\* the position of a frame's <group>
BackFrameAt(s) == <<-s, s, s * 12 * 1>>
FrontFrameAt(s) == <<s, -s, s * 12 * 160>>

\* the four <mesh> edges of one frame, in the order of the JSX; at is the
\* position of the enclosing group, colors the four material colours
FrameEdges(part, at, s, colors) ==
  <<[part |-> part, name |-> "top",
     position |-> <<at[1] + 0, at[2] + 2 * s, at[3] + 0>>,
     rotation |-> <<"0", "0", "0">>,
     dimensions |-> <<Plain(s * 1000), Plain(s * 120), Plain(s * 120)>>,
     color |-> colors[1]],
    [part |-> part, name |-> "right",
     position |-> <<at[1] + 2 * s, at[2] + 0, at[3] + 0>>,
     rotation |-> <<"0", "0", "0">>,
     dimensions |-> <<Plain(s * 120), Plain(s * 1000), Plain(s * 120)>>,
     color |-> colors[2]],
    [part |-> part, name |-> "bottom",
     position |-> <<at[1] + 0, at[2] - 2 * s, at[3] + 0>>,
     rotation |-> <<"0", "0", "0">>,
     dimensions |-> <<Plain(s * 1000), Plain(s * 120), Plain(s * 120)>>,
     color |-> colors[3]],
    [part |-> part, name |-> "left",
     position |-> <<at[1] - 2 * s, at[2] + 0, at[3] + 0>>,
     rotation |-> <<"0", "0", "0">>,
     dimensions |-> <<Plain(s * 120), Plain(s * 1000), Plain(s * 120)>>,
     color |-> colors[4]]>>

BackColors(reveal) ==
  IF reveal THEN <<"#FF6B6B", "#FFD93D", "#4ECDC4", "#95E1D3">>
  ELSE <<"#404040", "#303030", "#505050", "#606060">>

FrontColors(reveal) ==
  IF reveal THEN <<"#A0A0FF", "#FFA0FF", "#A0FFA0", "#FFA0A0">>
  ELSE <<"#707070", "#909090", "#909090", "#909090">>

ConnectorColorsOneShared(reveal) ==
  IF reveal THEN <<"#FF0000", "#00FF00", "#0000FF", "#FFFF00">>
  ELSE <<"#202020", "#202020", "#303030", "#202020">>

ConnectorColors(reveal) ==
  IF reveal THEN <<"#FF0000", "#00FF00", "#0000FF", "#FFFF00">>
  ELSE <<"#202020", "#202020", "#202020", "#202020">>

Connector(name, x, y, rotation, s, color) ==
  [part |-> "connector", name |-> name,
   position |-> <<x, y, 0>>,
   rotation |-> rotation,
   dimensions |-> <<[n |-> s * 500, sqrt2 |-> TRUE], Plain(s * 96),
                    Plain(s * 96)>>,
   color |-> color]

Connectors(s, colors) ==
  <<Connector("top-left", (-s - 2 * s + s - 2 * s) \div 2,
              (s + 2 * s + -s + 2 * s) \div 2, <<"9.5", "0", "PI/4">>, s,
              colors[1]),
    Connector("top-right", (-s + 2 * s + s + 2 * s) \div 2,
              (s + 2 * s + -s + 2 * s) \div 2, <<"0", "0", "-PI/4">>, s,
              colors[2]),
    Connector("bottom-right", (-s + 2 * s + s + 2 * s) \div 2,
              (s - 2 * s + -s - 2 * s) \div 2, <<"9.2", "0", "PI/4">>, s,
              colors[3]),
    Connector("bottom-left", (-s - 2 * s + s - 2 * s) \div 2,
              (s - 2 * s + -s - 2 * s) \div 2, <<"0", "0", "-PI/4.5">>, s,
              colors[4])>>

CubePlacementsPositiveOnly(size, reveal) ==
  LET s == CubeScaledSize(size)
  IN FrameEdges("back", BackFrameAt(s), s, BackColors(reveal))
       \o FrameEdges("front", FrontFrameAt(s), s, FrontColors(reveal))
       \o (IF size > 0 THEN Connectors(s, ConnectorColors(reveal)) ELSE <<>>)

\* the meshes ImpossibleCube returns, in the order of the JSX
CubePlacements(size, reveal) ==
  LET s == CubeScaledSize(size)
  IN FrameEdges("back", BackFrameAt(s), s, BackColors(reveal))
       \o FrameEdges("front", FrontFrameAt(s), s, FrontColors(reveal))
       \o Connectors(s, ConnectorColors(reveal))

\* ------------------------------------------ AnimatedBall useFrame callback
BallRadius == 30 * MODEL_SCALE
SurfaceClearance == 12 * MODEL_SCALE
HoverOffset == BallRadius + SurfaceClearance
BounceAmplitude == 5 * MODEL_SCALE

WrapsStrict(progress, adv, pathLength) ==
  progress + adv > TicksPerUnit * (pathLength - 1)

WrapsPastEnd(progress, adv, pathLength) ==
  progress + adv >= TicksPerUnit * pathLength

\* progressRef.current + delta * speed >= pathPoints.length - 1
Wraps(progress, adv, pathLength) ==
  progress + adv >= TicksPerUnit * (pathLength - 1)

AdvanceToZero(progress, adv, pathLength) ==
  IF Wraps(progress, adv, pathLength) THEN 0 ELSE progress + adv

AdvanceKeepOvershoot(progress, adv, pathLength) ==
  IF Wraps(progress, adv, pathLength)
  THEN TicksPerUnit * 1 + (progress + adv - TicksPerUnit * (pathLength - 1))
  ELSE progress + adv

AdvanceAlwaysMoves(progress, adv, pathLength) ==
  IF Wraps(progress, adv, pathLength)
  THEN TicksPerUnit * 1 ELSE progress + adv + 1

AdvanceToTwo(progress, adv, pathLength) ==
  IF Wraps(progress, adv, pathLength)
  THEN TicksPerUnit * 2 ELSE progress + adv

\* progressRef.current += delta * speed, then the reset at the end of the path
Advance(progress, adv, pathLength) ==
  IF Wraps(progress, adv, pathLength)
  THEN TicksPerUnit * 1 ELSE progress + adv

\* Math.floor(progressRef.current)
FloorIndex(progress) == progress \div TicksPerUnit

NextIndex(index, pathLength) == (index + 1) % pathLength

\* progressRef.current - index, in ticks
Frac(progress) == progress - FloorIndex(progress) * TicksPerUnit

\* THREE.MathUtils.lerp(a, b, t) = (1 - t) * a + t * b, times TicksPerUnit
Lerp(a, b, t) == (TicksPerUnit - t) * a + t * b

\* Math.sin(progress * 2 PI) at the quarter the phase lies in
\* (exact when TicksPerUnit is 4: the phases are 0, 1/4, 1/2, 3/4)
SinTable == <<0, 1, 0, -1>>
Sin2Pi(progress) == At(SinTable, (4 * Frac(progress)) \div TicksPerUnit)

\* bouncePhase * bounceAmplitude, times TicksPerUnit
Bounce(progress) ==
  ((Sin2Pi(progress) + 1) * BounceAmplitude * TicksPerUnit) \div 2

\* the interpolated waypoint height (current.z, next.z), times TicksPerUnit
PathHeightAt(path, progress) ==
  LET index == FloorIndex(progress)
  IN Lerp(At(path, index).z, At(path, NextIndex(index, Len(path))).z,
          Frac(progress))

SamplePositionSwapped(path, progress) ==
  LET index == FloorIndex(progress)
      current == At(path, index)
      next == At(path, NextIndex(index, Len(path)))
      t == Frac(progress)
  IN <<Lerp(current.x, next.x, t) + Bounce(progress),
       Lerp(current.z, next.z, t) + HoverOffset * TicksPerUnit,
       -Lerp(current.y, next.y, t)>>

SamplePosition(path, progress) ==
  LET index == FloorIndex(progress)
      current == At(path, index)
      next == At(path, NextIndex(index, Len(path)))
      t == Frac(progress)
  IN <<Lerp(current.x, next.x, t),
       Lerp(current.z, next.z, t) + HoverOffset * TicksPerUnit
         + Bounce(progress),
       -Lerp(current.y, next.y, t)>>

\* pathPoints[index] is undefined: reading current.x throws
ReadsUndefined(path, progress) ==
  FloorIndex(progress) < 0 \/ FloorIndex(progress) >= Len(path)

NoOp == [op |-> "none", pre |-> 0, adv |-> 0, wrap |-> FALSE]

\* ------------------------------------------------------------ operations
Init ==
  /\ stepsPerSide \in StepsPerSideSet
  /\ \E d \in Dimensions :
       /\ stepHeight = d[1]
       /\ stepWidth = d[2]
       /\ stepDepth = d[3]
  /\ speed \in Speeds
  /\ showTrueGeometry \in BOOLEAN
  /\ steps = GenerateSteps(stepsPerSide, stepHeight, stepDepth,
                           showTrueGeometry)
  /\ pathPoints = BuildPath(stepsPerSide, stepHeight, stepWidth, stepDepth,
                            showTrueGeometry)
  /\ progressRef = 0
  /\ ballMounted = FALSE
  /\ ballPosition = <<0, 0, 0>>
  /\ fault = "none"
  /\ last = NoOp
  /\ wrapped = FALSE
  /\ barWidth = 100
  /\ triangleSize = 400
  /\ bars = GenerateBars(ScaledTriangleSize(triangleSize),
                         ScaledBarWidth(barWidth), showTrueGeometry)
  /\ cubeSize = 400

\* React attaches the mesh to ballRef when the component is committed
AttachBall ==
  /\ ~ballMounted
  /\ ballMounted' = TRUE
  /\ last' = [NoOp EXCEPT !.op = "attach"]
  /\ UNCHANGED <<stepsPerSide, stepHeight, stepWidth, stepDepth, speed,
                 showTrueGeometry, steps, pathPoints, progressRef,
                 ballPosition, fault, wrapped, barWidth, triangleSize, bars,
                 cubeSize>>

\* useFrame((_state, delta) => ...)
Frame(delta) ==
  IF ~ballMounted THEN UNCHANGED vars
  ELSE
    LET adv == delta * speed
        p == Advance(progressRef, adv, Len(pathPoints))
        wrap == Wraps(progressRef, adv, Len(pathPoints))
    IN /\ progressRef' = p
       /\ IF ReadsUndefined(pathPoints, p)
          THEN /\ fault' = "TypeError"
               /\ UNCHANGED ballPosition
          ELSE /\ fault' = "none"
               /\ ballPosition' = SamplePosition(pathPoints, p)
       /\ last' = [op |-> "frame", pre |-> progressRef, adv |-> adv,
                   wrap |-> wrap]
       /\ wrapped' = (wrapped \/ wrap)
       /\ UNCHANGED <<stepsPerSide, stepHeight, stepWidth, stepDepth, speed,
                      showTrueGeometry, steps, pathPoints, ballMounted,
                      barWidth, triangleSize, bars, cubeSize>>

\* the dependency arrays of the two useMemo calls
StepsDeps(sps, sh, sd, reveal) == <<sps, sh, sd, reveal>>

PathDepsNoWidth(sps, sh, sw, sd, reveal) ==
  <<sps, ScaledStepHeight(sh), ScaledStepDepth(sd), reveal,
    OffsetY(sps, sd)>>

PathDeps(sps, sh, sw, sd, reveal) ==
  <<sps, ScaledStepHeight(sh), ScaledStepWidth(sw), ScaledStepDepth(sd),
    reveal, OffsetX(sps, sw), OffsetY(sps, sd)>>

BarsDeps(bw, ts, reveal) ==
  <<ScaledBarWidth(bw), ScaledTriangleSize(ts), reveal>>

\* a re-render with new props: each memo is recomputed when its
\* dependencies changed and kept otherwise; the refs survive
RerenderAll(sps, sh, sw, sd, sp, reveal, bw, ts, cs) ==
  /\ stepsPerSide' = sps
  /\ stepHeight' = sh
  /\ stepWidth' = sw
  /\ stepDepth' = sd
  /\ speed' = sp
  /\ showTrueGeometry' = reveal
  /\ steps' =
       IF StepsDeps(sps, sh, sd, reveal)
            # StepsDeps(stepsPerSide, stepHeight, stepDepth, showTrueGeometry)
       THEN GenerateSteps(sps, sh, sd, reveal) ELSE steps
  /\ pathPoints' =
       IF PathDeps(sps, sh, sw, sd, reveal)
            # PathDeps(stepsPerSide, stepHeight, stepWidth, stepDepth,
                       showTrueGeometry)
       THEN BuildPath(sps, sh, sw, sd, reveal) ELSE pathPoints
  /\ barWidth' = bw
  /\ triangleSize' = ts
  /\ bars' =
       IF BarsDeps(bw, ts, reveal)
            # BarsDeps(barWidth, triangleSize, showTrueGeometry)
       THEN GenerateBars(ScaledTriangleSize(ts), ScaledBarWidth(bw), reveal)
       ELSE bars
  /\ cubeSize' = cs
  /\ last' = [NoOp EXCEPT !.op = "render"]
  /\ UNCHANGED <<progressRef, ballMounted, ballPosition, fault, wrapped>>

\* a re-render that leaves the triangle and cube props alone
Rerender(sps, sh, sw, sd, sp, reveal) ==
  RerenderAll(sps, sh, sw, sd, sp, reveal, barWidth, triangleSize, cubeSize)

\* App: onToggleGeometry
ToggleGeometry ==
  Rerender(stepsPerSide, stepHeight, stepWidth, stepDepth, speed,
           ~showTrueGeometry)

\* App: onSpeedChange
SpeedChange(sp) ==
  /\ sp # speed
  /\ Rerender(stepsPerSide, stepHeight, stepWidth, stepDepth, sp,
              showTrueGeometry)

\* the owner passes another step count to both components
SetStepsPerSide(sps) ==
  /\ sps # stepsPerSide
  /\ Rerender(sps, stepHeight, stepWidth, stepDepth, speed, showTrueGeometry)

\* the owner passes other step dimensions to both components
SetDimensions(d) ==
  /\ d # <<stepHeight, stepWidth, stepDepth>>
  /\ Rerender(stepsPerSide, d[1], d[2], d[3], speed, showTrueGeometry)

Next ==
  \/ AttachBall
  \/ \E delta \in Deltas : Frame(delta)
  \/ ToggleGeometry
  \/ \E sp \in Speeds : SpeedChange(sp)
  \/ \E sps \in StepsPerSideSet : SetStepsPerSide(sps)
  \/ \E d \in Dimensions : SetDimensions(d)

Spec == Init /\ [][Next]_vars

\* ------------------------------------------- re-renders of all three scenes
\* the owner passes other triangle props
SetTriangle(bw, ts) ==
  /\ <<bw, ts>> # <<barWidth, triangleSize>>
  /\ RerenderAll(stepsPerSide, stepHeight, stepWidth, stepDepth, speed,
                 showTrueGeometry, bw, ts, cubeSize)

\* the owner passes another cube size
SetCubeSize(cs) ==
  /\ cs # cubeSize
  /\ RerenderAll(stepsPerSide, stepHeight, stepWidth, stepDepth, speed,
                 showTrueGeometry, barWidth, triangleSize, cs)

RenderInit ==
  /\ stepsPerSide \in StepsPerSideSet
  /\ \E d \in Dimensions :
       /\ stepHeight = d[1]
       /\ stepWidth = d[2]
       /\ stepDepth = d[3]
  /\ speed \in Speeds
  /\ showTrueGeometry \in BOOLEAN
  /\ steps = GenerateSteps(stepsPerSide, stepHeight, stepDepth,
                           showTrueGeometry)
  /\ pathPoints = BuildPath(stepsPerSide, stepHeight, stepWidth, stepDepth,
                            showTrueGeometry)
  /\ progressRef = 0
  /\ ballMounted = FALSE
  /\ ballPosition = <<0, 0, 0>>
  /\ fault = "none"
  /\ last = NoOp
  /\ wrapped = FALSE
  /\ barWidth \in BarWidths
  /\ triangleSize \in TriangleSizes
  /\ bars = GenerateBars(ScaledTriangleSize(triangleSize),
                         ScaledBarWidth(barWidth), showTrueGeometry)
  /\ cubeSize \in CubeSizes

RenderNext ==
  \/ ToggleGeometry
  \/ \E sp \in Speeds : SpeedChange(sp)
  \/ \E sps \in StepsPerSideSet : SetStepsPerSide(sps)
  \/ \E d \in Dimensions : SetDimensions(d)
  \/ \E bw \in BarWidths, ts \in TriangleSizes : SetTriangle(bw, ts)
  \/ \E cs \in CubeSizes : SetCubeSize(cs)

RenderSpec == RenderInit /\ [][RenderNext]_vars

\* ------------------------------------------------ uninterrupted playback
\* The marker of a staircase with stepsPerSide >= 1 whose props do not
\* change; the host calls the frame callback again and again, and time
\* passes between two calls.
PlayInit == Init /\ stepsPerSide >= 1

PlayFrame == \E delta \in Deltas \ {0} : Frame(delta)

PlayNext == AttachBall \/ PlayFrame

PlaySpec ==
  PlayInit /\ [][PlayNext]_vars /\ WF_vars(AttachBall) /\ WF_vars(PlayFrame)

\* ---------------------------------------------------------------- claims
StepRise == stepHeight * MODEL_SCALE
PathLength == Len(pathPoints)
LastIndex == TotalSteps(stepsPerSide) - 1
Height(i) == At(steps, i).position[3]
CenterOffset == (stepsPerSide * stepDepth * MODEL_SCALE) \div 2

\* C1: in illusion mode with stepsPerSide >= 1, every placement before the
\* last has height i * stepRise and the last placement has height 0 (so it
\* differs from (totalSteps - 1) * stepRise whenever stepRise is not 0).
C1_IllusionHeights ==
  (~showTrueGeometry /\ stepsPerSide >= 1) =>
    /\ \A i \in 0..(LastIndex - 1) : Height(i) = i * StepRise
    /\ Height(LastIndex) = 0
    /\ Height(LastIndex - 1) = (TotalSteps(stepsPerSide) - 2) * StepRise
    /\ (StepRise # 0 => Height(LastIndex) # LastIndex * StepRise)

C1_Witness ==
  /\ ~showTrueGeometry
  /\ stepsPerSide = 2
  /\ stepHeight = 50
  /\ Len(steps) = 8
  /\ Height(7) = 0
  /\ Height(6) = 6 * 900

\* C2: the generator returns exactly 4 * stepsPerSide placements in index
\* order (none when stepsPerSide is 0); placement i has side i div
\* stepsPerSide in 0..3 and lies stepInSide = i mod stepsPerSide units along
\* that side, and each side holds stepsPerSide consecutive placements.
C2_PlacementCountAndSides ==
  /\ Len(steps) = 4 * stepsPerSide
  /\ \A i \in 0..(Len(steps) - 1) :
       LET st == At(steps, i)
           along == (i % stepsPerSide) * stepDepth * MODEL_SCALE
           full == stepsPerSide * stepDepth * MODEL_SCALE
       IN /\ st.stepIndex = i
          /\ st.side = i \div stepsPerSide
          /\ st.side \in 0..3
          /\ st.side = 0 => st.position[1] + CenterOffset = along
          /\ st.side = 1 => st.position[2] + CenterOffset = along
          /\ st.side = 2 => st.position[1] + CenterOffset = full - along
          /\ st.side = 3 => st.position[2] + CenterOffset = full - along
  /\ \A sd \in 0..3 :
       {i \in 0..(Len(steps) - 1) : At(steps, i).side = sd}
         = (sd * stepsPerSide)..((sd + 1) * stepsPerSide - 1)

C2_Witness ==
  /\ stepsPerSide = 2
  /\ Len(steps) = 8
  /\ At(steps, 5).side = 2
  /\ At(steps, 7).side = 3
  /\ last.op = "render"

C2_WitnessEmpty == stepsPerSide = 0 /\ steps = <<>> /\ last.op = "render"

\* C3: in true-geometry mode with stepHeight > 0, placement i has height
\* i * stepRise for every i, the last one included, and the heights are
\* strictly increasing with the index.
C3_TrueGeometryMonotonic ==
  (showTrueGeometry /\ stepHeight > 0) =>
    /\ \A i \in 0..LastIndex : Height(i) = i * StepRise
    /\ \A i \in 0..(LastIndex - 1) : Height(i) < Height(i + 1)

C3_Witness ==
  /\ showTrueGeometry
  /\ stepHeight = 50
  /\ stepsPerSide = 2
  /\ Height(7) = 7 * 900
  /\ Height(7) > Height(6)

\* C4: progress is never negative; at the end of every frame on a path
\* built with stepsPerSide >= 1 it is below pathLength - 1; and once a
\* frame has reset it, it stays at or above the restart index 1.
C4_ProgressBounded ==
  /\ progressRef >= 0
  /\ (last.op = "frame" /\ stepsPerSide >= 1) =>
       progressRef < TicksPerUnit * (PathLength - 1)
  /\ wrapped => progressRef >= TicksPerUnit * 1

C4_Witness ==
  /\ stepsPerSide >= 1
  /\ last.op = "frame"
  /\ last.wrap
  /\ last.adv >= TicksPerUnit * PathLength
  /\ progressRef = TicksPerUnit

C4_WitnessAfterWrap ==
  /\ stepsPerSide >= 1
  /\ wrapped
  /\ last.op = "frame"
  /\ ~last.wrap
  /\ progressRef > TicksPerUnit

\* C5: a frame whose advanced progress reaches pathLength - 1 leaves the
\* progress at exactly 1, whatever the overshoot, and the position it
\* samples is waypoint[1] in the planar axes: x = waypoint[1].x and
\* z = -waypoint[1].y, with no bounce in them.
C5_WrapResetsToOne ==
  (last.op = "frame" /\ last.wrap) =>
    /\ progressRef = TicksPerUnit * 1
    /\ fault = "none" =>
         /\ ballPosition[1] = TicksPerUnit * At(pathPoints, 1).x
         /\ ballPosition[3] = -(TicksPerUnit * At(pathPoints, 1).y)

C5_Witness ==
  /\ last.op = "frame"
  /\ last.wrap
  /\ fault = "none"
  /\ stepsPerSide = 2
  /\ last.pre + last.adv > TicksPerUnit * (PathLength - 1)
  /\ ballPosition[1] = TicksPerUnit * At(pathPoints, 1).x
  /\ ballPosition[1] # 0

\* C6: for stepsPerSide >= 1 the path has 4 * stepsPerSide waypoints, as
\* many as the placement sequence: one per step index 0..totalSteps-2
\* (waypoint i at height (i + 1) * stepRise) and one synthetic waypoint at
\* the end (height 2 * stepRise).
C6_PathLength ==
  stepsPerSide >= 1 =>
    /\ PathLength = 4 * stepsPerSide - 1 + 1
    /\ PathLength = Len(steps)
    /\ \A i \in 0..(LastIndex - 1) : At(pathPoints, i).z = (i + 1) * StepRise
    /\ At(pathPoints, PathLength - 1).z = 2 * StepRise

C6_Witness ==
  /\ stepsPerSide = 2
  /\ stepHeight = 50
  /\ PathLength = 8
  /\ At(pathPoints, 6).z = 7 * 900
  /\ At(pathPoints, 7).z = 2 * 900

\* C7: for every stepsPerSide >= 1 the synthetic final waypoint has the X,
\* the Y and the height of waypoint[1].
C7_SyntheticEqualsWaypointOne ==
  stepsPerSide >= 1 =>
    /\ At(pathPoints, PathLength - 1).x = At(pathPoints, 1).x
    /\ At(pathPoints, PathLength - 1).y = At(pathPoints, 1).y
    /\ At(pathPoints, PathLength - 1).z = At(pathPoints, 1).z

\* C8: with stepsPerSide = 0 the path is empty and a frame that samples it
\* raises no fault and leaves the marker where it was.
C8_ZeroStepsGuarded ==
  (stepsPerSide = 0 /\ last.op = "frame") =>
    /\ PathLength = 0
    /\ fault = "none"
    /\ ballPosition = <<0, 0, 0>>

\* C9: from one frame to the next on the same path (stepsPerSide >= 1,
\* 0 < delta * speed < 1), the interpolated path height does not decrease.
C9_HeightNeverDecreases ==
  [][(/\ last.op = "frame"
      /\ last'.op = "frame"
      /\ fault = "none"
      /\ fault' = "none"
      /\ stepsPerSide >= 1
      /\ last.adv > 0
      /\ last.adv < TicksPerUnit
      /\ last'.adv > 0
      /\ last'.adv < TicksPerUnit)
     => PathHeightAt(pathPoints', progressRef')
          >= PathHeightAt(pathPoints, progressRef)]_vars

\* C10 (as stated): the frame that resets the progress keeps its overshoot,
\* i.e. the progress after it is 1 plus the amount by which
\* p + delta * speed exceeded pathLength - 1.
C10_NoMotionSkipped ==
  (last.op = "frame" /\ last.wrap /\ stepsPerSide >= 1) =>
    progressRef = TicksPerUnit * 1
      + (last.pre + last.adv - TicksPerUnit * (PathLength - 1))

\* C10 (amended): a frame that does not reset advances the progress by
\* exactly delta * speed; a frame that resets leaves it at exactly 1 and
\* drops the overshoot, however large.
C10_OnlyResetDiscards ==
  last.op = "frame" =>
    IF last.pre + last.adv >= TicksPerUnit * (PathLength - 1)
    THEN last.wrap /\ progressRef = TicksPerUnit * 1
    ELSE ~last.wrap /\ progressRef = last.pre + last.adv

C10_Witness ==
  /\ last.op = "frame"
  /\ last.wrap
  /\ stepsPerSide >= 1
  /\ last.pre > TicksPerUnit
  /\ last.adv > 0
  /\ last.pre + last.adv > TicksPerUnit * (PathLength - 1)
  /\ progressRef = TicksPerUnit

\* ------------------------------------------------------ claims C11 - C20
\* C11: after any sequence of parameter changes and re-renders, the cached
\* step array, bar array and waypoint path each equal what a fresh
\* computation from the current props returns.
C11_MemoCoherent ==
  /\ steps = GenerateSteps(stepsPerSide, stepHeight, stepDepth,
                           showTrueGeometry)
  /\ pathPoints = BuildPath(stepsPerSide, stepHeight, stepWidth, stepDepth,
                            showTrueGeometry)
  /\ bars = GenerateBars(ScaledTriangleSize(triangleSize),
                         ScaledBarWidth(barWidth), showTrueGeometry)

C11_Witness ==
  /\ last.op = "render"
  /\ stepsPerSide = 2
  /\ stepWidth = 100
  /\ At(pathPoints, 0).x = -900
  /\ barWidth = 200
  /\ showTrueGeometry
  /\ bars[2].position[3] = 200 * 25 * 150

BarDepth(n) == bars[n].position[3]

\* C12: the triangle generator returns exactly 3 bars; in illusion mode all
\* three depth offsets are 0; in true-geometry mode with barWidth > 0 the
\* right bar is at 1.5 and the left bar at 3.75 times the scaled bar
\* thickness (nonzero and different), and the bottom bar stays at depth 0.
C12_TriangleDepths ==
  /\ Len(bars) = 3
  /\ ~showTrueGeometry => \A n \in 1..3 : BarDepth(n) = 0
  /\ (showTrueGeometry /\ barWidth > 0) =>
       /\ BarDepth(1) = 0
       /\ BarDepth(2) = 150 * ScaledBarWidth(barWidth)
       /\ BarDepth(3) = 375 * ScaledBarWidth(barWidth)
       /\ BarDepth(2) # 0
       /\ BarDepth(3) # 0
       /\ BarDepth(2) # BarDepth(3)

C12_Witness ==
  /\ showTrueGeometry
  /\ barWidth = 100
  /\ triangleSize = 400
  /\ BarDepth(2) = 375000
  /\ BarDepth(3) = 937500
  /\ last.op = "render"

Cube == CubePlacements(cubeSize, showTrueGeometry)

CubeTopology ==
  <<<<"back", "top">>, <<"back", "right">>, <<"back", "bottom">>,
    <<"back", "left">>, <<"front", "top">>, <<"front", "right">>,
    <<"front", "bottom">>, <<"front", "left">>, <<"connector", "top-left">>,
    <<"connector", "top-right">>, <<"connector", "bottom-right">>,
    <<"connector", "bottom-left">>>>

\* C13: for every size, zero and negative included, and in both modes the
\* cube has exactly 12 placements: the 4 edges of the back frame, the 4
\* edges of the front frame and the 4 corner connectors, in that order.
C13_CubeTopology ==
  LET c == Cube
  IN /\ Len(c) = 12
     /\ \A n \in 1..Len(c) : <<c[n].part, c[n].name>> = CubeTopology[n]

C13_Witness ==
  /\ cubeSize < 0
  /\ showTrueGeometry
  /\ Len(Cube) = 12
  /\ Cube[12].part = "connector"
  /\ Cube[12].position[1] = 0 - 2 * cubeSize * CUBE_SCALE
  /\ Cube[12].position[1] > 0
  /\ last.op = "render"

\* C14: in illusion mode the 4 connectors share one grey that none of the 8
\* frame edges has; in true-geometry mode the 12 colours are pairwise
\* distinct.
C14_CubeColours ==
  LET c == Cube
  IN /\ ~showTrueGeometry =>
          /\ \A n \in 9..12 : c[n].color = "#202020"
          /\ \A n \in 1..8, m \in 9..12 : c[n].color # c[m].color
     /\ showTrueGeometry =>
          \A n \in 1..12, m \in 1..12 : n # m => c[n].color # c[m].color

C14_Witness ==
  /\ ~showTrueGeometry
  /\ cubeSize = 400
  /\ Cube[9].color = "#202020"
  /\ Cube[6].color = Cube[7].color
  /\ last.op = "render"

C14_WitnessTrue ==
  /\ showTrueGeometry
  /\ Cube[9].color = "#FF0000"
  /\ Cube[1].color = "#FF6B6B"
  /\ last.op = "render"

\* C15 (as stated): a frame with delta = 0, in any state with
\* stepsPerSide >= 1, leaves the progress unchanged, and the marker where
\* the frame before it put it.
C15_ZeroDeltaChangesNothing ==
  [][(last'.op = "frame" /\ last'.adv = 0 /\ stepsPerSide >= 1) =>
       /\ progressRef' = progressRef
       /\ last.op = "frame" => ballPosition' = ballPosition]_vars

\* C15 (amended): a frame with delta = 0 that directly follows another
\* frame (no re-render in between, stepsPerSide >= 1) leaves the progress
\* and the marker position unchanged.
C15_ZeroDeltaAfterFrame ==
  [][(last'.op = "frame" /\ last'.adv = 0 /\ stepsPerSide >= 1
        /\ last.op = "frame") =>
       /\ progressRef' = progressRef
       /\ ballPosition' = ballPosition
       /\ ~last'.wrap]_vars

C15_Witness ==
  /\ last.op = "frame"
  /\ last.adv = 0
  /\ ~last.wrap
  /\ stepsPerSide >= 1
  /\ progressRef = last.pre
  /\ progressRef > TicksPerUnit
  /\ ballPosition = SamplePosition(pathPoints, progressRef)

UnitLength == stepDepth * MODEL_SCALE

\* C16: for stepsPerSide >= 1, from placement i to placement
\* (i + 1) mod totalSteps the planar position moves by one unitLength along
\* one axis, in the direction of the side of placement i (+X, +Y at maximum
\* X, -X at maximum Y, -Y at X = 0 before centering); the step after the
\* last is back at placement 0 and the X and Y ranges are symmetric about 0.
C16_ClosedSquareFootprint ==
  stepsPerSide >= 1 =>
    LET total == TotalSteps(stepsPerSide)
        X(i) == At(steps, i).position[1]
        Y(i) == At(steps, i).position[2]
        Xs == {X(i) : i \in 0..(total - 1)}
        Ys == {Y(i) : i \in 0..(total - 1)}
    IN /\ \A i \in 0..(total - 1) :
            LET j == (i + 1) % total
                sd == At(steps, i).side
            IN /\ sd = 0 => X(j) - X(i) = UnitLength /\ Y(j) = Y(i)
               /\ sd = 1 => /\ Y(j) - Y(i) = UnitLength /\ X(j) = X(i)
                            /\ X(i) + CenterOffset = stepsPerSide * UnitLength
               /\ sd = 2 => /\ X(j) - X(i) = -UnitLength /\ Y(j) = Y(i)
                            /\ Y(i) + CenterOffset = stepsPerSide * UnitLength
               /\ sd = 3 => /\ Y(j) - Y(i) = -UnitLength /\ X(j) = X(i)
                            /\ X(i) + CenterOffset = 0
       /\ \A x \in Xs : -x \in Xs /\ x <= CenterOffset
       /\ \A y \in Ys : -y \in Ys /\ y <= CenterOffset
       /\ CenterOffset \in Xs
       /\ CenterOffset \in Ys

C16_Witness ==
  /\ stepsPerSide = 2
  /\ last.op = "render"
  /\ At(steps, 7).position = <<-3600, 0, At(steps, 7).position[3]>>
  /\ At(steps, 0).position = <<-3600, -3600, 0>>
  /\ At(steps, 4).position[1] = 3600
  /\ At(steps, 4).position[2] = 3600

\* C17: for stepsPerSide >= 1 and stepWidth = stepDepth, waypoint i
\* (i in 0..totalSteps-2) is at the planar centre of the box of step i (the
\* placement's position plus the box offset turned by the placement's
\* rotation) and at height (i + 1) * stepRise, on all four sides.
C17_WaypointsAtStepCentres ==
  (stepsPerSide >= 1 /\ stepWidth = stepDepth) =>
    \A i \in 0..(LastIndex - 1) :
      LET c == StepBoxCentre(At(steps, i), stepDepth * MODEL_SCALE,
                             stepHeight * MODEL_SCALE,
                             stepDepth * MODEL_SCALE)
      IN /\ At(pathPoints, i).x = c[1]
         /\ At(pathPoints, i).y = c[2]
         /\ At(pathPoints, i).z = (i + 1) * StepRise

\* C18: after a frame with 0 <= p < pathLength - 1, with index = floor(p),
\* nextIndex = (index + 1) mod pathLength and frac = p - index, the marker
\* is at x = lerp of the path x, y = lerp of the path height + hover offset
\* + bounce, z = -(lerp of the path y); hover and bounce enter y only.
C18_SamplerInterpolates ==
  (last.op = "frame" /\ fault = "none" /\ progressRef >= 0
     /\ progressRef < TicksPerUnit * (PathLength - 1)) =>
    LET index == progressRef \div TicksPerUnit
        nextIndex == (index + 1) % PathLength
        frac == progressRef - index * TicksPerUnit
        a == At(pathPoints, index)
        b == At(pathPoints, nextIndex)
    IN /\ ballPosition[1] = TicksPerUnit * a.x + (b.x - a.x) * frac
       /\ ballPosition[2] = TicksPerUnit * a.z + (b.z - a.z) * frac
                              + TicksPerUnit * HoverOffset
                              + Bounce(progressRef)
       /\ ballPosition[3] = -(TicksPerUnit * a.y + (b.y - a.y) * frac)

C18_Witness ==
  /\ last.op = "frame"
  /\ fault = "none"
  /\ stepsPerSide = 2
  /\ stepHeight = 50
  /\ progressRef = 4 * TicksPerUnit + 1
  /\ Bounce(progressRef) > 0
  /\ ballPosition[1] < TicksPerUnit * At(pathPoints, 4).x
  /\ ballPosition[2] > TicksPerUnit * At(pathPoints, 4).z
  /\ ballPosition[3] = -(TicksPerUnit * At(pathPoints, 4).y)

\* C19: whatever re-renders rebuilt the path in between, a frame on a path
\* with stepsPerSide >= 1 reads existing waypoints only: floor(p) is in
\* 0..pathLength-2 and nextIndex is floor(p) + 1, at most pathLength - 1, so
\* the modulo does not wrap and no frame throws.
C19_FrameReadsExistingWaypoints ==
  (last.op = "frame" /\ stepsPerSide >= 1) =>
    /\ fault = "none"
    /\ FloorIndex(progressRef) \in 0..(PathLength - 2)
    /\ NextIndex(FloorIndex(progressRef), PathLength)
         = FloorIndex(progressRef) + 1
    /\ FloorIndex(progressRef) + 1 \in 1..(PathLength - 1)

C19_Witness ==
  /\ last.op = "frame"
  /\ stepsPerSide = 1
  /\ last.adv = 0
  /\ last.pre >= TicksPerUnit * PathLength
  /\ last.wrap
  /\ fault = "none"
  /\ progressRef = TicksPerUnit

\* C20: with the marker mounted, stepsPerSide >= 1 and time passing in
\* every frame, the progress is reset infinitely often; after the first
\* reset segment 0 is never sampled again; and when every frame advances by
\* less than 1, every segment 1..pathLength-2 is sampled infinitely often.
C20_MarkerLoopsForever ==
  /\ []<>(last.op = "frame" /\ last.wrap)
  /\ [](wrapped => FloorIndex(progressRef) >= 1)
  /\ [](last.op = "frame" => last.adv < TicksPerUnit) =>
       \A k \in 1..(4 * MaxSteps - 2) :
         []<>(k <= PathLength - 2 =>
                (last.op = "frame" /\ FloorIndex(progressRef) = k))

C20_Witness ==
  /\ wrapped
  /\ last.op = "frame"
  /\ ~last.wrap
  /\ last.adv > 0
  /\ last.adv < TicksPerUnit
  /\ stepsPerSide = 2
  /\ FloorIndex(progressRef) = PathLength - 2

\* C21: the waypoint path does not depend on showTrueGeometry: the path in
\* use equals the path built from the same stepsPerSide, stepHeight,
\* stepWidth and stepDepth with the flag true and with the flag false,
\* waypoint by waypoint; a toggle of the view mode leaves the path and the
\* progress as they are, while the height of the last placement changes
\* (stepsPerSide >= 1, stepHeight not 0).
C21_PathIgnoresViewMode ==
  /\ [](LET t == BuildPath(stepsPerSide, stepHeight, stepWidth, stepDepth,
                           TRUE)
            f == BuildPath(stepsPerSide, stepHeight, stepWidth, stepDepth,
                           FALSE)
        IN /\ Len(t) = Len(f)
           /\ Len(pathPoints) = Len(t)
           /\ \A n \in 1..Len(pathPoints) :
                pathPoints[n] = t[n] /\ pathPoints[n] = f[n])
  /\ [][showTrueGeometry' # showTrueGeometry =>
          /\ pathPoints' = pathPoints
          /\ progressRef' = progressRef
          /\ ballPosition' = ballPosition
          /\ (stepsPerSide >= 1 /\ stepHeight # 0) =>
               At(steps', LastIndex).position[3]
                 # At(steps, LastIndex).position[3]]_vars

C21_Witness ==
  /\ last.op = "render"
  /\ showTrueGeometry
  /\ ballMounted
  /\ wrapped
  /\ stepsPerSide = 2
  /\ stepHeight = 50
  /\ progressRef = 3 * TicksPerUnit + 1
  /\ Height(LastIndex) = 7 * StepRise
  /\ pathPoints = BuildPath(stepsPerSide, stepHeight, stepWidth, stepDepth,
                            FALSE)
  /\ ballPosition = SamplePosition(pathPoints, progressRef)

====
